---- MODULE Spec2Model ----
(***************************************************************************)
(* Model of src/main.py: the NewsScraper pipeline (run, open_site,         *)
(* search_news, extract_news, download_image, check_for_money,             *)
(* save_to_excel) and the pure text functions it applies.                  *)
(*                                                                         *)
(* A Python str is a sequence of characters, so that lower(), count(),     *)
(* re.search(), urlparse(), parse_qs(), unquote() and split() are computed *)
(* character by character as the library computes them.  A character is    *)
(* the one-character string that holds it; the characters that cannot be   *)
(* written so are written by their code point, "U+XXXX": the double quote  *)
(* U+0022, the backslash U+005C, the grave accent U+0060, the control      *)
(* characters other than "\t", "\n", "\f" and "\r", and every character    *)
(* above U+00FF.  The texts that lower() and re.search() are applied to    *)
(* are strings over U+0000..U+00FF.                                        *)
(***************************************************************************)
EXTENDS Integers, Sequences, FiniteSets, TLC

VARIABLES
    pc,                    \* position of the control flow inside run()
    page,                  \* the rendered search-results page
    search_phrase,         \* self.search_phrase
    browser,               \* state of the Selenium session
    location,              \* what the browser currently shows
    trace,                 \* log lines written and library keywords called, in order
    image_url,             \* local of extract_news (line 97)
    title,                 \* local of extract_news (line 98)
    description,           \* local of extract_news (line 99)
    date,                  \* local of extract_news (line 100)
    actual_image_url,      \* local of download_image (line 138)
    image_filename,        \* local of extract_news (line 102)
    count_search_phrases,  \* local of extract_news (line 103)
    contains_money,        \* local of extract_news (line 104)
    article,               \* local of extract_news (line 106)
    workbook,              \* rows of the open workbook (save_to_excel)
    xlsx,                  \* rows of output/news_data.xlsx on disk
    screenshots,           \* files written by browser.screenshot
    exc,                   \* the exception in flight, "none" when there is none
    caught                 \* the exception run() caught and logged, or "none"

vars == <<pc, page, search_phrase, browser, location, trace, image_url, title, description, date, actual_image_url, image_filename,
          count_search_phrases, contains_money, article, workbook, xlsx,
          screenshots, exc, caught>>

----------------------------------------------------------------------------
(* Bounds of the model *)

MaxResults == 1
MaxTitleLen == 3
MaxDescLen == 2
MaxPhraseLen == 2
MaxTitleFrags == 2
MaxDescFrags == 1
MaxUrlFrags == 3

----------------------------------------------------------------------------
(* Python values *)

\* A value that is a str or None: None, or Str(s) for the str s.
None == [some |-> FALSE, v |-> <<>>]
Str(s) == [some |-> TRUE, v |-> s]

Last(s) == s[Len(s)]

Min(a, b) == IF a <= b THEN a ELSE b

RECURSIVE Concats(_, _)
Concats(F, n) ==
    IF n = 0 THEN {<<>>}
    ELSE LET prev == Concats(F, n - 1) IN prev \cup {p \o f : p \in prev, f \in F}

RECURSIVE SeqsUpTo(_, _)
SeqsUpTo(A, n) ==
    IF n = 0 THEN {<<>>}
    ELSE LET prev == SeqsUpTo(A, n - 1) IN prev \cup {Append(p, c) : p \in prev, c \in A}

----------------------------------------------------------------------------
(* str.lower and str.count *)

\* the cased letters of U+0000..U+00FF that str.lower changes, and what it
\* changes them to
UpperAlpha == <<"A", "B", "C", "D", "E", "F", "G", "H", "I", "J", "K", "L", "M",
                "N", "O", "P", "Q", "R", "S", "T", "U", "V", "W", "X", "Y", "Z",
                "À", "Á", "Â", "Ã", "Ä", "Å", "Æ", "Ç", "È", "É", "Ê", "Ë", "Ì",
                "Í", "Î", "Ï", "Ð", "Ñ", "Ò", "Ó", "Ô", "Õ", "Ö", "Ø", "Ù", "Ú",
                "Û", "Ü", "Ý", "Þ">>
LowerAlpha == <<"a", "b", "c", "d", "e", "f", "g", "h", "i", "j", "k", "l", "m",
                "n", "o", "p", "q", "r", "s", "t", "u", "v", "w", "x", "y", "z",
                "à", "á", "â", "ã", "ä", "å", "æ", "ç", "è", "é", "ê", "ë", "ì",
                "í", "î", "ï", "ð", "ñ", "ò", "ó", "ô", "õ", "ö", "ø", "ù", "ú",
                "û", "ü", "ý", "þ">>

lowerChar(c) ==
    IF \E i \in 1..Len(UpperAlpha) : UpperAlpha[i] = c
    THEN LowerAlpha[CHOOSE i \in 1..Len(UpperAlpha) : UpperAlpha[i] = c]
    ELSE c

lower(s) == [i \in 1..Len(s) |-> lowerChar(s[i])]

startswithAt(s, sub, i) ==
    /\ i + Len(sub) - 1 <= Len(s)
    /\ \A k \in 1..Len(sub) : s[i + k - 1] = sub[k]

\* str.count: occurrences found by a left-to-right scan that resumes after
\* each occurrence; the empty substring is found at every position.
RECURSIVE countFrom(_, _, _)
countFrom(s, sub, i) ==
    IF i + Len(sub) - 1 > Len(s) THEN 0
    ELSE IF startswithAt(s, sub, i) THEN 1 + countFrom(s, sub, i + Len(sub))
    ELSE countFrom(s, sub, i + 1)

count(s, sub) == IF Len(sub) = 0 THEN Len(s) + 1 ELSE countFrom(s, sub, 1)

ConcatCountPhrases(t, d, phrase) == count(lower(t \o d), lower(phrase))

\* line 103
CountPhrases(t, d, phrase) ==
    count(lower(t), lower(phrase)) + count(lower(d), lower(phrase))

----------------------------------------------------------------------------
(* re.search over the three money patterns *)

Digits == {"0", "1", "2", "3", "4", "5", "6", "7", "8", "9"}

\* a pattern is a sequence of items: a character class repeated min..max
\* times, or min.. times when many is set (the quantifiers *, +)
Lit(c) == [chars |-> {c}, min |-> 1, max |-> 1, many |-> FALSE]

RECURSIVE Lits(_)
Lits(s) == IF Len(s) = 0 THEN <<>> ELSE <<Lit(s[1])>> \o Lits(Tail(s))

\* \$\d[\d,]*\.?\d{0,2}
DollarPattern ==
    << Lit("$"),
       [chars |-> Digits, min |-> 1, max |-> 1, many |-> FALSE],
       [chars |-> Digits \cup {","}, min |-> 0, max |-> 0, many |-> TRUE],
       [chars |-> {"."}, min |-> 0, max |-> 1, many |-> FALSE],
       [chars |-> Digits, min |-> 0, max |-> 2, many |-> FALSE] >>

\* \d+ dollars
WordPattern ==
    << [chars |-> Digits, min |-> 1, max |-> 1, many |-> TRUE] >>
    \o Lits(<<" ", "d", "o", "l", "l", "a", "r", "s">>)

\* \d+ USD
UsdPattern ==
    << [chars |-> Digits, min |-> 1, max |-> 1, many |-> TRUE] >>
    \o Lits(<<" ", "U", "S", "D">>)

money_patterns == <<DollarPattern, WordPattern, UsdPattern>>

\* the items k.. of pattern p match some substring of t that starts at pos
RECURSIVE matchHere(_, _, _, _)
matchHere(p, k, t, pos) ==
    IF k > Len(p) THEN TRUE
    ELSE \E n \in p[k].min .. (IF p[k].many THEN Len(t) - pos + 1
                                ELSE Min(p[k].max, Len(t) - pos + 1)) :
            /\ \A j \in 0..(n - 1) : t[pos + j] \in p[k].chars
            /\ matchHere(p, k + 1, t, pos + n)

re_search(p, t) == \E pos \in 1..(Len(t) + 1) : matchHere(p, 1, t, pos)

NoSeparatorMoney(t, d) ==
    \E i \in 1..Len(money_patterns) : re_search(money_patterns[i], t \o d)

\* lines 167-174; text = f"{title} {description}"
check_for_money(t, d) ==
    LET text == t \o <<" ">> \o d
    IN  \E i \in 1..Len(money_patterns) : re_search(money_patterns[i], text)

----------------------------------------------------------------------------
(* str.split and the characters *)

indexOf(s, c) ==
    IF \E i \in 1..Len(s) : s[i] = c
    THEN CHOOSE i \in 1..Len(s) : s[i] = c /\ \A j \in 1..(i - 1) : s[j] # c
    ELSE 0

RECURSIVE split(_, _)
split(s, sep) ==
    LET i == indexOf(s, sep)
    IN  IF i = 0 THEN <<s>>
        ELSE <<SubSeq(s, 1, i - 1)>> \o split(SubSeq(s, i + 1, Len(s)), sep)

HexDigits == <<"0", "1", "2", "3", "4", "5", "6", "7", "8", "9",
               "A", "B", "C", "D", "E", "F", "a", "b", "c", "d", "e", "f">>

isHex(c) == \E i \in 1..Len(HexDigits) : HexDigits[i] = c

hexVal(c) ==
    LET i == CHOOSE k \in 1..Len(HexDigits) : HexDigits[k] = c
    IN  IF i <= 16 THEN i - 1 ELSE i - 7

\* the code point n as it is written in "U+XXXX": four hexadecimal digits
\* or more
RECURSIVE hexStr(_, _)
hexStr(n, width) ==
    IF n < 16 /\ width <= 1 THEN HexDigits[n + 1]
    ELSE hexStr(n \div 16, width - 1) \o HexDigits[(n % 16) + 1]

\* the control characters, code points 0..31
Controls == <<"U+0000", "U+0001", "U+0002", "U+0003", "U+0004", "U+0005", "U+0006", "U+0007",
              "U+0008", "\t", "\n", "U+000B", "\f", "\r", "U+000E", "U+000F",
              "U+0010", "U+0011", "U+0012", "U+0013", "U+0014", "U+0015", "U+0016", "U+0017",
              "U+0018", "U+0019", "U+001A", "U+001B", "U+001C", "U+001D", "U+001E", "U+001F">>

\* the printable ASCII characters, code points 32..126
Ascii == <<" ", "!", "U+0022", "#", "$", "%", "&", "'", "(", ")", "*", "+", ",", "-", ".", "/",
           "0", "1", "2", "3", "4", "5", "6", "7", "8", "9", ":", ";", "<", "=", ">", "?",
           "@", "A", "B", "C", "D", "E", "F", "G", "H", "I", "J", "K", "L", "M", "N", "O",
           "P", "Q", "R", "S", "T", "U", "V", "W", "X", "Y", "Z", "[", "U+005C", "]", "^", "_",
           "U+0060", "a", "b", "c", "d", "e", "f", "g", "h", "i", "j", "k", "l", "m", "n", "o",
           "p", "q", "r", "s", "t", "u", "v", "w", "x", "y", "z", "{", "|", "}", "~">>

\* the characters of code points 160..255
Latin1 == <<" ", "¡", "¢", "£", "¤", "¥", "¦", "§", "¨", "©", "ª", "«", "¬", "­", "®", "¯",
            "°", "±", "²", "³", "´", "µ", "¶", "·", "¸", "¹", "º", "»", "¼", "½", "¾", "¿",
            "À", "Á", "Â", "Ã", "Ä", "Å", "Æ", "Ç", "È", "É", "Ê", "Ë", "Ì", "Í", "Î", "Ï",
            "Ð", "Ñ", "Ò", "Ó", "Ô", "Õ", "Ö", "×", "Ø", "Ù", "Ú", "Û", "Ü", "Ý", "Þ", "ß",
            "à", "á", "â", "ã", "ä", "å", "æ", "ç", "è", "é", "ê", "ë", "ì", "í", "î", "ï",
            "ð", "ñ", "ò", "ó", "ô", "õ", "ö", "÷", "ø", "ù", "ú", "û", "ü", "ý", "þ", "ÿ">>

\* the character of code point n
chr(n) ==
    IF n <= 31 THEN Controls[n + 1]
    ELSE IF n <= 126 THEN Ascii[n - 31]
    ELSE IF n <= 159 THEN "U+" \o hexStr(n, 4)
    ELSE IF n <= 255 THEN Latin1[n - 159]
    ELSE "U+" \o hexStr(n, 4)

AsciiLetters == {Ascii[n - 31] : n \in (65..90) \cup (97..122)}

----------------------------------------------------------------------------
(* urllib.parse.urlsplit *)

Raised == [ok |-> FALSE, v |-> <<>>]
Returned(s) == [ok |-> TRUE, v |-> s]

\* the first position >= start of s that holds a character of cs, 0 if none
findAny(s, cs, start) ==
    IF \E i \in start..Len(s) : s[i] \in cs
    THEN CHOOSE i \in start..Len(s) : s[i] \in cs /\ \A j \in start..(i - 1) : s[j] \notin cs
    ELSE 0

\* url.lstrip(_WHATWG_C0_CONTROL_OR_SPACE)
lstrip_c0(url) ==
    LET k == findAny(url, {url[i] : i \in 1..Len(url)} \ ({chr(n) : n \in 0..31} \cup {" "}), 1)
    IN  IF k = 0 THEN <<>> ELSE SubSeq(url, k, Len(url))

\* url.replace(b, "") for b in _UNSAFE_URL_BYTES_TO_REMOVE
IsSafe(c) == c \notin {"\t", "\r", "\n"}
remove_unsafe(url) == SelectSeq(url, IsSafe)

scheme_chars == AsciiLetters \cup Digits \cup {"+", "-", "."}

\* what is left of the url once its scheme is cut off
after_scheme(url) ==
    LET i == findAny(url, {":"}, 1)
    IN  IF i > 1 /\ url[1] \in AsciiLetters /\ \A k \in 1..(i - 1) : url[k] \in scheme_chars
        THEN SubSeq(url, i + 1, Len(url))
        ELSE url

\* ipaddress.IPv4Address._parse_octet does not raise
valid_octet(o) ==
    /\ Len(o) >= 1
    /\ Len(o) <= 3
    /\ \A k \in 1..Len(o) : o[k] \in Digits
    /\ (Len(o) > 1 => o[1] # "0")
    /\ (Len(o) = 3 =>
          100 * hexVal(o[1]) + 10 * hexVal(o[2]) + hexVal(o[3]) <= 255)

\* ipaddress.IPv4Address(s) does not raise
valid_ipv4(s) ==
    LET octets == split(s, ".")
    IN  /\ Len(octets) = 4
        /\ \A k \in 1..4 : valid_octet(octets[k])

\* ipaddress.IPv6Address._parse_hextet does not raise
valid_hextet(h) ==
    /\ Len(h) >= 1
    /\ Len(h) <= 4
    /\ \A k \in 1..Len(h) : isHex(h[k])

\* ipaddress.IPv6Address._ip_int_from_string does not raise
valid_ipv6_parts(parts0) ==
    /\ Len(parts0) >= 3
    /\ LET dotted == findAny(Last(parts0), {"."}, 1) # 0
           front == SubSeq(parts0, 1, Len(parts0) - 1)
           parts == IF dotted THEN front \o << <<"0">>, <<"0">> >> ELSE parts0
           n == Len(parts)
           skips == {i \in 2..(n - 1) : Len(parts[i]) = 0}
       IN  /\ dotted => valid_ipv4(Last(parts0))
           /\ n <= 9
           /\ Cardinality(skips) <= 1
           /\ IF skips # {}
              THEN LET k == CHOOSE i \in skips : TRUE
                       hi == IF Len(parts[1]) = 0 THEN k - 2 ELSE k - 1
                       lo == IF Len(parts[n]) = 0 THEN n - k - 1 ELSE n - k
                   IN  /\ (Len(parts[1]) = 0 => hi = 0)
                       /\ (Len(parts[n]) = 0 => lo = 0)
                       /\ 8 - (hi + lo) >= 1
                       /\ \A i \in 1..hi : valid_hextet(parts[i])
                       /\ \A i \in (n - lo + 1)..n : valid_hextet(parts[i])
              ELSE /\ n = 8
                   /\ \A i \in 1..n : valid_hextet(parts[i])

\* ipaddress.IPv6Address(s) does not raise: the scope id after a '%' is
\* not empty and holds no '%'
valid_ipv6(s) ==
    LET p == indexOf(s, "%")
        addr == IF p = 0 THEN s ELSE SubSeq(s, 1, p - 1)
        scope == IF p = 0 THEN <<>> ELSE SubSeq(s, p + 1, Len(s))
    IN  /\ (p # 0 => (Len(scope) >= 1 /\ indexOf(scope, "%") = 0))
        /\ Len(addr) >= 1
        /\ valid_ipv6_parts(split(addr, ":"))

\* re.match(r"\Av[a-fA-F0-9]+\..+\Z", hostname); no "\n" is left in the url
valid_ipvfuture(h) ==
    LET d == indexOf(h, ".")
    IN  /\ d >= 3
        /\ \A k \in 2..(d - 1) : isHex(h[k])
        /\ Len(h) >= d + 1
        /\ \A k \in (d + 1)..Len(h) : h[k] # "\n"

\* _check_bracketed_host does not raise
check_bracketed_host(h) ==
    IF Len(h) >= 1 /\ h[1] = "v" THEN valid_ipvfuture(h)
    ELSE ~valid_ipv4(h) /\ valid_ipv6(h)

\* netloc.partition('[')[2].partition(']')[0]
bracketed_host(netloc) ==
    LET o == indexOf(netloc, "[")
        rest == SubSeq(netloc, o + 1, Len(netloc))
        c == indexOf(rest, "]")
    IN  IF c = 0 THEN rest ELSE SubSeq(rest, 1, c - 1)

\* the characters whose NFKC normalization holds one of / ? # @ :
NfkcDelimiters ==
    {"U+2047", "U+2048", "U+2049", "U+2100", "U+2101", "U+2105", "U+2106", "U+2A74",
     "U+FE13", "U+FE16", "U+FE55", "U+FE56", "U+FE5F", "U+FE6B", "U+FF03", "U+FF0F",
     "U+FF1A", "U+FF1F", "U+FF20"}

\* _checknetloc does not raise
checknetloc(netloc) == \A k \in 1..Len(netloc) : netloc[k] \notin NfkcDelimiters

\* the netloc of the url, cut off its scheme: what follows a leading '//',
\* up to the first of / ? #
netloc_of(url) ==
    IF Len(url) >= 2 /\ url[1] = "/" /\ url[2] = "/"
    THEN SubSeq(url, 3, (IF findAny(url, {"/", "?", "#"}, 3) = 0 THEN Len(url)
                         ELSE findAny(url, {"/", "?", "#"}, 3) - 1))
    ELSE <<>>

\* what follows the netloc
after_netloc(url) ==
    IF Len(url) >= 2 /\ url[1] = "/" /\ url[2] = "/"
    THEN (IF findAny(url, {"/", "?", "#"}, 3) = 0 THEN <<>>
          ELSE SubSeq(url, findAny(url, {"/", "?", "#"}, 3), Len(url)))
    ELSE url

\* the checks of urlsplit on the netloc pass: its brackets are balanced and
\* hold an IPv6 or IPvFuture address, and _checknetloc does not raise
netloc_ok(netloc) ==
    /\ (indexOf(netloc, "[") # 0) = (indexOf(netloc, "]") # 0)
    /\ (indexOf(netloc, "[") # 0 => check_bracketed_host(bracketed_host(netloc)))
    /\ checknetloc(netloc)

\* the fragment is cut at the first '#'
before_fragment(u) == IF indexOf(u, "#") = 0 THEN u ELSE SubSeq(u, 1, indexOf(u, "#") - 1)

\* the query is what follows the first '?'
query_of(u) == IF indexOf(u, "?") = 0 THEN <<>> ELSE SubSeq(u, indexOf(u, "?") + 1, Len(u))

split_after_scheme(url) ==
    IF netloc_ok(netloc_of(url))
    THEN Returned(query_of(before_fragment(after_netloc(url))))
    ELSE Raised

\* urlsplit(url): Raised when it raises ValueError, else the query
urlsplit(url) == split_after_scheme(after_scheme(remove_unsafe(lstrip_c0(url))))

\* urlparse(url) raises ValueError
urlparse_raises(url) == ~urlsplit(url).ok

\* urlparse(url).query
urlparse_query(url) == urlsplit(url).v

----------------------------------------------------------------------------
(* urllib.parse.unquote and parse_qs *)

\* the byte that the escape %XX at position i of s stands for, -1 when no
\* escape starts there
byteAt(s, i) ==
    IF i + 2 <= Len(s) /\ s[i] = "%" /\ isHex(s[i + 1]) /\ isHex(s[i + 2])
    THEN 16 * hexVal(s[i + 1]) + hexVal(s[i + 2])
    ELSE 0 - 1

Replacement == "U+FFFD"

\* for the first byte b of a UTF-8 sequence: the length of the sequence and
\* the range of its second byte; n = 0 when b starts no sequence
utf8_lead(b) ==
    IF b >= 194 /\ b <= 223 THEN [n |-> 2, lo |-> 128, hi |-> 191, bits |-> b - 192]
    ELSE IF b = 224 THEN [n |-> 3, lo |-> 160, hi |-> 191, bits |-> 0]
    ELSE IF b = 237 THEN [n |-> 3, lo |-> 128, hi |-> 159, bits |-> 13]
    ELSE IF b >= 225 /\ b <= 239 THEN [n |-> 3, lo |-> 128, hi |-> 191, bits |-> b - 224]
    ELSE IF b = 240 THEN [n |-> 4, lo |-> 144, hi |-> 191, bits |-> 0]
    ELSE IF b >= 241 /\ b <= 243 THEN [n |-> 4, lo |-> 128, hi |-> 191, bits |-> b - 240]
    ELSE IF b = 244 THEN [n |-> 4, lo |-> 128, hi |-> 143, bits |-> 4]
    ELSE [n |-> 0, lo |-> 0, hi |-> 0, bits |-> 0]

IsContinuation(b) == b >= 128 /\ b <= 191

\* unquote: every escape %XX is a byte, and the bytes are decoded as UTF-8
\* with errors='replace': a run of bytes that starts but does not complete
\* a sequence becomes one U+FFFD, and so does every byte that starts none
RECURSIVE unquoteFrom(_, _)
unquoteFrom(s, i) ==
    IF i > Len(s) THEN <<>>
    ELSE LET b1 == byteAt(s, i)
             b2 == byteAt(s, i + 3)
             b3 == byteAt(s, i + 6)
             b4 == byteAt(s, i + 9)
             lead == utf8_lead(b1)
         IN  IF b1 < 0 THEN <<s[i]>> \o unquoteFrom(s, i + 1)
             ELSE IF b1 <= 127 THEN <<chr(b1)>> \o unquoteFrom(s, i + 3)
             ELSE IF lead.n = 0 \/ b2 < lead.lo \/ b2 > lead.hi
             THEN <<Replacement>> \o unquoteFrom(s, i + 3)
             ELSE IF lead.n = 2
             THEN <<chr(64 * lead.bits + (b2 - 128))>> \o unquoteFrom(s, i + 6)
             ELSE IF ~IsContinuation(b3)
             THEN <<Replacement>> \o unquoteFrom(s, i + 6)
             ELSE IF lead.n = 3
             THEN <<chr(4096 * lead.bits + 64 * (b2 - 128) + (b3 - 128))>>
                  \o unquoteFrom(s, i + 9)
             ELSE IF ~IsContinuation(b4)
             THEN <<Replacement>> \o unquoteFrom(s, i + 9)
             ELSE <<chr(262144 * lead.bits + 4096 * (b2 - 128) + 64 * (b3 - 128)
                        + (b4 - 128))>>
                  \o unquoteFrom(s, i + 12)

unquote(s) == unquoteFrom(s, 1)

plusToSpace(s) == [i \in 1..Len(s) |-> IF s[i] = "+" THEN " " ELSE s[i]]

\* parse_qsl: the (name, value) pairs of the fields that hold a '=' and a
\* non-blank value, both unquoted after '+' is replaced by a space
RECURSIVE pairsOf(_)
pairsOf(fields) ==
    IF Len(fields) = 0 THEN <<>>
    ELSE LET f == fields[1]
             e == indexOf(f, "=")
             rest == pairsOf(Tail(fields))
         IN  IF e = 0 \/ e = Len(f) THEN rest
             ELSE << [name |-> unquote(plusToSpace(SubSeq(f, 1, e - 1))),
                      value |-> unquote(plusToSpace(SubSeq(f, e + 1, Len(f))))] >>
                  \o rest

parse_qsl(qs) == IF Len(qs) = 0 THEN <<>> ELSE pairsOf(split(qs, "&"))

UrlKey == <<"u", "r", "l">>

\* 'url' in parse_qs(query)
has_url_param(qs) ==
    \E i \in 1..Len(parse_qsl(qs)) : parse_qsl(qs)[i].name = UrlKey

\* parse_qs(query)['url'][0]
first_url_value(qs) ==
    LET ps == parse_qsl(qs)
        i == CHOOSE k \in 1..Len(ps) :
                 ps[k].name = UrlKey /\ \A j \in 1..(k - 1) : ps[j].name # UrlKey
    IN  ps[i].value

\* line 138
resolve_image_url(url) == unquote(first_url_value(urlparse_query(url)))

\* line 140: actual_image_url.split("/")[-1]
last_segment(s) == Last(split(s, "/"))

----------------------------------------------------------------------------
(* The rendered search-results page and the Selenium lookups *)

\* The page is what the selectors of extract_news can match, in blocks: the
\* results are the li children of ul.search-results-module-results-menu, in
\* document order, and header is the part of the page that precedes the list.
\* In a block, title, description and date are None when the block has no
\* such element, and img.elem tells whether it has an img.image element,
\* whose src attribute is img.src (None: no src).
PageElem(t, d, dt, img) == [title |-> t, description |-> d, date |-> dt, img |-> img]

NoImg == [elem |-> FALSE, src |-> None]
Img(src) == [elem |-> TRUE, src |-> src]

Min1(S) == CHOOSE i \in S : \A j \in S : i <= j

\* the blocks of the page in document order
blocks(pg) == <<pg.header>> \o pg.results

\* find_element("css:ul.search-results-module-results-menu > li:first-child")
has_first_result(pg) == Len(pg.results) >= 1

\* get_text(selector): the text of the first element of the page the selector
\* matches; ElementNotFound when it matches none
get_text(pg, field) ==
    LET S == {i \in 1..Len(blocks(pg)) : blocks(pg)[i][field].some}
    IN  IF S = {} THEN [ok |-> FALSE, v |-> <<>>]
        ELSE [ok |-> TRUE, v |-> blocks(pg)[Min1(S)][field].v]

\* get_element_attribute("css:img.image", "src")
get_element_attribute(pg) ==
    LET S == {i \in 1..Len(blocks(pg)) : blocks(pg)[i].img.elem}
    IN  IF S = {} THEN [ok |-> FALSE, v |-> None]
        ELSE [ok |-> TRUE, v |-> blocks(pg)[Min1(S)].img.src]

\* the page before the search: nothing the selectors match
BlankPage == [header |-> PageElem(None, None, None, NoImg), results |-> <<>>]

TitleText == <<"S", "h", "i", "p", " ", "$", "5">>
DescText == <<"s", "h", "i", "p", "s">>
DateText == <<"1", "h">>
RelaySrc == <<"h", "/", "i", "?", "u", "r", "l", "=", "c", "%", "2", "F", "p", ".", "j">>
PlainSrc == <<"h", "/", "i", "?", "x", "=", "1">>
\* src="" and a src urlparse raises ValueError on (unbalanced bracket in the
\* host)
EmptySrc == <<>>
BadSrc == <<"/", "/", "[", "h", "?">>

\* an img.image element, if any: without src, with src="", with a src that
\* cannot be parsed, with a relay src, with a src without `url` parameter
ImgElems ==
    {NoImg, Img(None), Img(Str(EmptySrc)), Img(Str(BadSrc)),
     Img(Str(RelaySrc)), Img(Str(PlainSrc))}

\* the entries of the results list
PageElems ==
    { PageElem(t, d, dt, img) :
        t \in {None, Str(TitleText)}, d \in {None, Str(DescText)},
        dt \in {None, Str(DateText)}, img \in ImgElems }

\* what the page may hold before the results list: a promoted story with its
\* three texts, or none, and an image, or none
HeaderElems ==
    { PageElem(None, None, None, img) : img \in ImgElems }
    \cup { PageElem(Str(TitleText), Str(DescText), Str(DateText), img) : img \in ImgElems }

\* the pages the site can render for a search
RenderedPages ==
    UNION { [header : HeaderElems, results : [1..n -> PageElems]] : n \in 0..MaxResults }

----------------------------------------------------------------------------
(* The spreadsheet *)

Header == <<"Title", "Date", "Description", "Image Filename",
            "Count of Search Phrases", "Contains Money">>

\* list(article.values()), lines 106-113
Row(a) == <<a.Title, a.Date, a.Description, a.ImageFilename,
            a.CountOfSearchPhrases, a.ContainsMoney>>

----------------------------------------------------------------------------
(* The steps of run() *)

\* progress_indicator, lines 225-226
Progress(step, total) ==
    "INFO Progress: " \o ToString(step) \o "/" \o ToString(total) \o " steps completed."

\* run, lines 203-205
Start ==
    /\ pc = "start"
    /\ trace' = trace \o <<"INFO Starting the news scraping process...", Progress(1, 3)>>
    /\ pc' = "open_site"
    /\ UNCHANGED <<page, search_phrase, browser, location, image_url, title,
                   description, date, actual_image_url, image_filename,
                   count_search_phrases, contains_money, article, workbook,
                   xlsx, screenshots, exc, caught>>

OpenOutcomes == {"ok", "no_browser", "load_failed"}

OpenSiteSwallows ==
    /\ pc = "open_site"
    /\ \E outcome \in OpenOutcomes :
        /\ trace' = trace \o <<"INFO Opening site", "browser.open_available_browser">>
                          \o (IF outcome = "ok" THEN <<"INFO Site opened successfully.">>
                              ELSE <<"ERROR Failed to open site">>)
        /\ browser' = IF outcome = "no_browser" THEN browser ELSE "open"
        /\ location' = IF outcome = "ok" THEN "site" ELSE location
        /\ pc' = "search_news"
        /\ exc' = exc
    /\ UNCHANGED <<page, search_phrase, image_url, title, description, date,
                   actual_image_url, image_filename, count_search_phrases,
                   contains_money, article, workbook, xlsx, screenshots, caught>>

\* open_site, lines 60-66
OpenSite ==
    /\ pc = "open_site"
    /\ \E outcome \in OpenOutcomes :
        /\ trace' = trace \o <<"INFO Opening site", "browser.open_available_browser">>
                          \o (IF outcome = "ok" THEN <<"INFO Site opened successfully.">>
                              ELSE <<"ERROR Failed to open site">>)
        /\ browser' = IF outcome = "no_browser" THEN browser ELSE "open"
        /\ location' = IF outcome = "ok" THEN "site" ELSE location
        /\ pc' = IF outcome = "ok" THEN "search_news" ELSE "run_except"
        /\ exc' = IF outcome = "ok" THEN exc ELSE "browser.open_available_browser"
    /\ UNCHANGED <<page, search_phrase, image_url, title, description, date,
                   actual_image_url, image_filename, count_search_phrases,
                   contains_money, article, workbook, xlsx, screenshots, caught>>

SearchCalls == <<"browser.click_element", "browser.input_text", "browser.press_keys">>

\* search_news, lines 75-84; failing is the call that raises, 0 when none
\* does.  When the search completes the site renders the results page pg.
SearchNews ==
    /\ pc = "search_news"
    /\ \E failing \in 0..Len(SearchCalls) :
      \E pg \in (IF failing = 0 THEN RenderedPages ELSE {page}) :
        /\ trace' = trace \o <<"INFO Searching for news">>
                          \o (IF failing = 0
                              THEN SearchCalls \o <<"INFO Search completed successfully.",
                                                    Progress(2, 3)>>
                              ELSE SubSeq(SearchCalls, 1, failing)
                                   \o <<"ERROR Error during search">>)
        /\ location' = IF failing = 0 THEN "results" ELSE location
        /\ page' = pg
        /\ pc' = IF failing = 0 THEN "extract_news" ELSE "run_except"
        /\ exc' = IF failing = 0 THEN exc ELSE SearchCalls[failing]
    /\ UNCHANGED <<search_phrase, browser, image_url, title, description,
                   date, actual_image_url, image_filename, count_search_phrases,
                   contains_money, article, workbook, xlsx, screenshots, caught>>

LookupCalls == <<"browser.find_element", "browser.get_element_attribute",
                 "browser.get_text title", "browser.get_text description",
                 "browser.get_text date">>

\* what lines 96-100 do on page pg: the values read, and the number of the
\* lookup that raises (0 when none does)
lookups(pg) ==
    LET a == get_element_attribute(pg)
        t == get_text(pg, "title")
        d == get_text(pg, "description")
        dt == get_text(pg, "date")
    IN  [image_url |-> a.v, title |-> t.v, description |-> d.v, date |-> dt.v,
         failing |-> IF ~has_first_result(pg) THEN 1
                     ELSE IF ~a.ok THEN 2
                     ELSE IF ~t.ok THEN 3
                     ELSE IF ~d.ok THEN 4
                     ELSE IF ~dt.ok THEN 5
                     ELSE 0]

ExtractLookupsAnyList ==
    /\ pc = "extract_news"
    /\ LET r == lookups(page)
           failing == IF r.failing = 1
                      THEN (IF ~get_element_attribute(page).ok THEN 2
                            ELSE IF ~get_text(page, "title").ok THEN 3
                            ELSE IF ~get_text(page, "description").ok THEN 4
                            ELSE IF ~get_text(page, "date").ok THEN 5 ELSE 0)
                      ELSE r.failing
       IN  /\ trace' = trace \o <<"INFO Extracting the newest news article.">>
                             \o (IF failing = 0 THEN LookupCalls
                                 ELSE SubSeq(LookupCalls, 1, failing)
                                      \o <<"ERROR Error during extraction">>)
           /\ image_url' = IF failing = 0 \/ failing > 2 THEN r.image_url ELSE image_url
           /\ title' = IF failing = 0 \/ failing > 3 THEN r.title ELSE title
           /\ description' = IF failing = 0 \/ failing > 4 THEN r.description ELSE description
           /\ date' = IF failing = 0 THEN r.date ELSE date
           /\ pc' = IF failing = 0 THEN "download_image" ELSE "run_except"
           /\ exc' = IF failing = 0 THEN exc ELSE LookupCalls[failing]
    /\ UNCHANGED <<page, search_phrase, browser, location, actual_image_url,
                   image_filename, count_search_phrases, contains_money, article,
                   workbook, xlsx, screenshots, caught>>

\* extract_news, lines 93-100 (and 118-120 when a lookup raises)
ExtractLookups ==
    /\ pc = "extract_news"
    /\ LET r == lookups(page)
           failing == r.failing
       IN  /\ trace' = trace \o <<"INFO Extracting the newest news article.">>
                             \o (IF failing = 0 THEN LookupCalls
                                 ELSE SubSeq(LookupCalls, 1, failing)
                                      \o <<"ERROR Error during extraction">>)
           /\ image_url' = IF failing = 0 \/ failing > 2 THEN r.image_url ELSE image_url
           /\ title' = IF failing = 0 \/ failing > 3 THEN r.title ELSE title
           /\ description' = IF failing = 0 \/ failing > 4 THEN r.description ELSE description
           /\ date' = IF failing = 0 THEN r.date ELSE date
           /\ pc' = IF failing = 0 THEN "download_image" ELSE "run_except"
           /\ exc' = IF failing = 0 THEN exc ELSE LookupCalls[failing]
    /\ UNCHANGED <<page, search_phrase, browser, location, actual_image_url,
                   image_filename, count_search_phrases, contains_money, article,
                   workbook, xlsx, screenshots, caught>>

DownloadOutcomes == {"ok", "go_to_fails", "screenshot_fails"}

\* line 134: `if url:` is false for None and for the empty str
is_falsy(url) == ~url.some \/ Len(url.v) = 0

\* line 135: the url is given and urlparse raises ValueError on it
parse_fails(url) == ~is_falsy(url) /\ urlparse_raises(url.v)

\* lines 134-137: the url is given, it is parsed and its query holds a `url`
\* parameter
resolves(url) ==
    ~is_falsy(url) /\ ~urlparse_raises(url.v) /\ has_url_param(urlparse_query(url.v))

\* what download_image writes to the log and calls, lines 132-153
download_trace(falsy, parseFails, hasParam, outcome) ==
    <<"INFO Attempting to download image">>
    \o (IF falsy THEN <<"WARNING No URL provided for image download.">>
        ELSE IF parseFails THEN <<"ERROR Error downloading image">>
        ELSE IF ~hasParam THEN <<"WARNING No valid 'url' parameter found in image URL.">>
        ELSE IF outcome = "go_to_fails"
        THEN <<"browser.go_to", "ERROR Error downloading image">>
        ELSE IF outcome = "screenshot_fails"
        THEN <<"browser.go_to", "browser.screenshot", "ERROR Error downloading image">>
        ELSE <<"browser.go_to", "browser.screenshot", "INFO Image downloaded successfully">>)

\* extract_news line 102 and download_image, lines 132-153.  The except of
\* line 151 absorbs a urlparse, go_to or screenshot that raises.
DownloadImage ==
    /\ pc = "download_image"
    /\ \E outcome \in (IF resolves(image_url) THEN DownloadOutcomes ELSE {"ok"}) :
        LET falsy == is_falsy(image_url)
            hasParam == resolves(image_url)
            actual == resolve_image_url(image_url.v)
            name == last_segment(actual)
        IN  /\ trace' = trace \o download_trace(falsy, parse_fails(image_url), hasParam, outcome)
            /\ actual_image_url' = IF hasParam THEN Str(actual) ELSE actual_image_url
            /\ location' = IF hasParam /\ outcome # "go_to_fails" THEN "image" ELSE location
            /\ screenshots' = IF hasParam /\ outcome = "ok"
                              THEN screenshots \cup {name} ELSE screenshots
            /\ image_filename' = IF hasParam /\ outcome = "ok" THEN Str(name) ELSE None
            /\ pc' = "count"
            /\ exc' = exc
    /\ UNCHANGED <<page, search_phrase, browser, image_url, title, description,
                   date, count_search_phrases, contains_money, article, workbook,
                   xlsx, caught>>

\* extract_news, line 103
CountStep ==
    /\ pc = "count"
    /\ count_search_phrases' = CountPhrases(title, description, search_phrase)
    /\ pc' = "money"
    /\ UNCHANGED <<page, search_phrase, browser, location, trace, image_url, title,
                   description, date, actual_image_url, image_filename,
                   contains_money, article, workbook, xlsx, screenshots, exc, caught>>

\* extract_news, line 104, and check_for_money, lines 166-174
MoneyStep ==
    /\ pc = "money"
    /\ contains_money' = check_for_money(title, description)
    /\ trace' = trace \o <<"INFO Checking for monetary values in the article.",
                           IF check_for_money(title, description)
                           THEN "INFO Monetary value found in the article."
                           ELSE "INFO No monetary values found in the article.">>
    /\ pc' = "article"
    /\ UNCHANGED <<page, search_phrase, browser, location, image_url, title,
                   description, date, actual_image_url, image_filename,
                   count_search_phrases, article, workbook, xlsx, screenshots,
                   exc, caught>>

\* extract_news, lines 106-115
BuildArticle ==
    /\ pc = "article"
    /\ article' = << [Title |-> title, Date |-> date, Description |-> description,
                      ImageFilename |-> image_filename,
                      CountOfSearchPhrases |-> count_search_phrases,
                      ContainsMoney |-> contains_money] >>
    /\ trace' = Append(trace, "INFO Article extracted successfully.")
    /\ pc' = "save_to_excel"
    /\ UNCHANGED <<page, search_phrase, browser, location, image_url, title,
                   description, date, actual_image_url, image_filename,
                   count_search_phrases, contains_money, workbook, xlsx,
                   screenshots, exc, caught>>

ExcelCalls == <<"excel.create_workbook", "excel.append_rows_to_worksheet header",
                "excel.append_rows_to_worksheet row", "excel.save_workbook",
                "excel.close_workbook">>

\* what can raise inside the try of save_to_excel: the constructor of line
\* 185, then the keyword calls
ExcelFailures == <<"Files()">> \o ExcelCalls

\* extract_news lines 116-120, save_to_excel lines 183-197 and run line 209;
\* failing is the entry of ExcelFailures that raises, 0 when none does
SaveToExcel ==
    /\ pc = "save_to_excel"
    /\ \E failing \in 0..Len(ExcelFailures) :
        LET rows == <<Header, Row(article[1])>>
        IN  /\ trace' = trace \o <<"INFO Saving article data to Excel file.">>
                  \o (IF failing = 0
                      THEN ExcelCalls \o <<"INFO Data saved successfully",
                                           Progress(3, 3), Progress(3, 3),
                                           "INFO News scraping process completed successfully.">>
                      ELSE SubSeq(ExcelCalls, 1, failing - 1)
                           \o <<"ERROR Error saving data to Excel",
                                "ERROR Error during extraction">>)
            /\ workbook' = IF failing \in {1, 2, 3} THEN <<>>
                           ELSE IF failing = 4 THEN <<Header>>
                           ELSE IF failing = 0 THEN <<>>
                           ELSE rows
            /\ xlsx' = IF failing \in {0, 6} THEN rows ELSE xlsx
            /\ pc' = IF failing = 0 THEN "run_finally" ELSE "run_except"
            /\ exc' = IF failing = 0 THEN exc ELSE ExcelFailures[failing]
    /\ UNCHANGED <<page, search_phrase, browser, location, image_url, title,
                   description, date, actual_image_url, image_filename,
                   count_search_phrases, contains_money, article, screenshots,
                   caught>>

\* run, lines 210-211: except Exception catches what a step raised
RunExcept ==
    /\ pc = "run_except"
    /\ trace' = Append(trace, "ERROR An error occurred during the scraping process")
    /\ caught' = exc
    /\ exc' = "none"
    /\ pc' = "run_finally"
    /\ UNCHANGED <<page, search_phrase, browser, location, image_url, title,
                   description, date, actual_image_url, image_filename,
                   count_search_phrases, contains_money, article, workbook, xlsx,
                   screenshots>>

RunFinallyOnSuccessOnly ==
    /\ pc = "run_finally"
    /\ \E closes \in BOOLEAN :
        /\ trace' = IF caught # "none" THEN trace
                    ELSE IF closes
                    THEN trace \o <<"browser.close_browser", "INFO Browser closed.">>
                    ELSE trace \o <<"browser.close_browser">>
        /\ browser' = IF caught = "none" /\ closes THEN "closed" ELSE browser
        /\ exc' = IF caught = "none" /\ ~closes THEN "browser.close_browser" ELSE exc
        /\ pc' = IF caught = "none" /\ ~closes THEN "raised" ELSE "returned"
    /\ UNCHANGED <<page, search_phrase, location, image_url, title, description,
                   date, actual_image_url, image_filename, count_search_phrases,
                   contains_money, article, workbook, xlsx, screenshots, caught>>

\* run, lines 212-214: finally calls close_browser.  When the call returns,
\* line 214 logs it and run() returns; when it raises, no handler is left:
\* the exception leaves run() and reaches line 233.
RunFinally ==
    /\ pc = "run_finally"
    /\ \E closes \in BOOLEAN :
        /\ trace' = IF closes
                    THEN trace \o <<"browser.close_browser", "INFO Browser closed.">>
                    ELSE trace \o <<"browser.close_browser">>
        /\ browser' = IF closes THEN "closed" ELSE browser
        /\ exc' = IF closes THEN exc ELSE "browser.close_browser"
        /\ pc' = IF closes THEN "returned" ELSE "raised"
    /\ UNCHANGED <<page, search_phrase, location, image_url, title, description,
                   date, actual_image_url, image_filename, count_search_phrases,
                   contains_money, article, workbook, xlsx, screenshots, caught>>

----------------------------------------------------------------------------
(* The pipeline: run() with the hardcoded phrase *)

\* line 231
Ship == <<"s", "h", "i", "p">>

\* the state NewsScraper(search_phrase) is constructed in, before run()
Constructed(pg, phrase) ==
    /\ pc = "start"
    /\ page = pg
    /\ search_phrase = phrase
    /\ browser = "none"
    /\ location = "blank"
    /\ trace = <<>>
    /\ image_url = None
    /\ title = <<>>
    /\ description = <<>>
    /\ date = <<>>
    /\ actual_image_url = None
    /\ image_filename = None
    /\ count_search_phrases = 0
    /\ contains_money = FALSE
    /\ article = <<>>
    /\ workbook = <<>>
    /\ xlsx = <<>>
    /\ screenshots = {}
    /\ exc = "none"
    /\ caught = "none"

Init == Constructed(BlankPage, Ship)

Next ==
    \/ Start
    \/ OpenSite
    \/ SearchNews
    \/ ExtractLookups
    \/ DownloadImage
    \/ CountStep
    \/ MoneyStep
    \/ BuildArticle
    \/ SaveToExcel
    \/ RunExcept
    \/ RunFinally

Spec == Init /\ [][Next]_vars

\* run() is sequential and every call in it blocks until it completes or
\* raises: as long as run() has not returned and no exception has left
\* it, it takes its next step.  Every step of Next moves pc, and a step is
\* possible wherever run() has not exited, so this is weak fairness of Next.
PcValues ==
    {"start", "open_site", "search_news", "extract_news", "download_image", "count",
     "money", "article", "save_to_excel", "run_except", "run_finally", "returned",
     "raised"}

\* run() has returned, or an exception has left it
Exited == pc \in {"returned", "raised"}

Advance == ~Exited /\ pc' \in PcValues \ {pc}

FairSpec == Spec /\ WF_pc(Advance)

----------------------------------------------------------------------------
(* The text functions on bounded inputs, at their place in extract_news *)

TraceToLookups ==
    <<"INFO Starting the news scraping process...", Progress(1, 3),
      "INFO Opening site", "browser.open_available_browser",
      "INFO Site opened successfully.", "INFO Searching for news">>
    \o SearchCalls
    \o <<"INFO Search completed successfully.", Progress(2, 3),
         "INFO Extracting the newest news article.">>
    \o LookupCalls

\* the state extract_news is in after lines 96-100 on a page whose only
\* result has title t, description d and an image of src attribute src
AfterLookups(t, d, src, phrase) ==
    /\ page = [header |-> PageElem(None, None, None, NoImg),
               results |-> <<PageElem(Str(t), Str(d), Str(DateText), Img(src))>>]
    /\ search_phrase = phrase
    /\ browser = "open"
    /\ location = "results"
    /\ image_url = src
    /\ title = t
    /\ description = d
    /\ date = DateText
    /\ actual_image_url = None
    /\ image_filename = None
    /\ contains_money = FALSE
    /\ article = <<>>
    /\ workbook = <<>>
    /\ xlsx = <<>>
    /\ screenshots = {}
    /\ exc = "none"
    /\ caught = "none"

UrlFrags ==
    { <<"u", "r", "l", "=">>, <<"x", "=">>, <<"&">>, <<"p">>, <<"/">>, <<"#">>,
      <<"%", "2", "F">>, <<"%", "2", "5">>, <<"2", "F">>, <<"+">>, <<"?">> }

Urls ==
    { base \o q : base \in {<<"h", "/", "i">>, <<"h", "/", "i", "?">>,
                               <<"/", "/", "[", "h", "?">>},
                  q \in Concats(UrlFrags, MaxUrlFrags) }

InitImage ==
    \E u \in Urls :
        /\ pc = "download_image"
        /\ trace = TraceToLookups
        /\ count_search_phrases = 0
        /\ AfterLookups(TitleText, DescText, Str(u), Ship)

SpecImage == InitImage /\ [][DownloadImage]_vars

CountAlphabet == {"s", "S", "h"}

InitCount ==
    \E t \in SeqsUpTo(CountAlphabet, MaxTitleLen),
       d \in SeqsUpTo(CountAlphabet, MaxDescLen),
       phrase \in SeqsUpTo(CountAlphabet, MaxPhraseLen) \ {<<>>} :
        /\ pc = "count"
        /\ trace = TraceToLookups \o download_trace(TRUE, FALSE, FALSE, "ok")
        /\ count_search_phrases = 0
        /\ AfterLookups(t, d, None, phrase)

SpecCount == InitCount /\ [][CountStep]_vars

MoneyFrags ==
    { <<"$">>, <<"5">>, <<",">>, <<"x">>,
      <<"d", "o", "l", "l", "a", "r", "s">>, <<" ", "d", "o", "l", "l", "a", "r", "s">>,
      <<" ", "D", "o", "l", "l", "a", "r", "s">>,
      <<"U", "S", "D">>, <<" ", "U", "S", "D">> }

InitMoney ==
    \E t \in Concats(MoneyFrags, MaxTitleFrags), d \in Concats(MoneyFrags, MaxDescFrags) :
        /\ pc = "money"
        /\ trace = TraceToLookups \o download_trace(TRUE, FALSE, FALSE, "ok")
        /\ count_search_phrases = CountPhrases(t, d, Ship)
        /\ AfterLookups(t, d, None, Ship)

SpecMoney == InitMoney /\ [][MoneyStep]_vars

----------------------------------------------------------------------------
(* Vocabulary of the properties *)

InTrace(e) == \E i \in 1..Len(trace) : trace[i] = e

BrowserCalls ==
    {"browser.open_available_browser", "browser.go_to", "browser.screenshot",
     "browser.close_browser"}
    \cup {SearchCalls[i] : i \in 1..Len(SearchCalls)}
    \cup {LookupCalls[i] : i \in 1..Len(LookupCalls)}

StepStarts ==
    {"INFO Opening site", "INFO Searching for news",
     "INFO Extracting the newest news article.",
     "INFO Attempting to download image",
     "INFO Checking for monetary values in the article.",
     "INFO Saving article data to Excel file."}

StepErrors ==
    {"ERROR Failed to open site", "ERROR Error during search",
     "ERROR Error during extraction", "ERROR Error saving data to Excel"}

TextFields == {"title", "description", "date"}

SearchDone == InTrace("INFO Search completed successfully.")

\* no element of the page matches the selector of the field
Missing(field) ==
    /\ ~page.header[field].some
    /\ \A i \in 1..Len(page.results) : ~page.results[i][field].some

ImgOnPage ==
    \/ page.header.img.elem
    \/ \E i \in 1..Len(page.results) : page.results[i].img.elem

FirstResultExists == Len(page.results) >= 1

Saved == xlsx # <<>>

ExcelCallSet == {ExcelFailures[i] : i \in 1..Len(ExcelFailures)}

----------------------------------------------------------------------------
(* C1 *)

ClosedAtReturn ==
    Exited =>
        /\ Cardinality({i \in 1..Len(trace) : trace[i] = "browser.close_browser"}) = 1
        /\ pc = "returned" => browser = "closed"

NoCallAfterClose ==
    \A i \in 1..Len(trace) :
        trace[i] = "browser.close_browser" =>
            \A j \in (i + 1)..Len(trace) : trace[j] \notin BrowserCalls

\* C1: every run of run() ends, whichever steps succeed or raise; when it
\* has ended, close_browser has been called (once), and the session is
\* closed when run() returned; and no browser keyword is ever called after
\* close_browser.
C1_BrowserAlwaysClosed ==
    /\ <>Exited
    /\ [](ClosedAtReturn /\ NoCallAfterClose)

C1_Witness ==
    /\ pc = "returned"
    /\ caught = "excel.save_workbook"
    /\ browser = "closed"
    /\ Last(trace) = "INFO Browser closed."

----------------------------------------------------------------------------
(* C2 *)

\* C2: when the results list has no first entry, extract_news raises at
\* find_element, run() catches that error, save_to_excel is never invoked
\* and no row is written; and whenever the spreadsheet is written, it holds
\* the header and the one row made of the fields computed before the save.
C2_NoResultsNoRow ==
    /\ (SearchDone /\ ~FirstResultExists) =>
          /\ ~Saved /\ workbook = <<>> /\ article = <<>>
          /\ ~InTrace("INFO Saving article data to Excel file.")
          /\ ~InTrace("browser.get_element_attribute")
          /\ pc = "returned" => caught = "browser.find_element"
    /\ Saved =>
          /\ article # <<>>
          /\ InTrace("INFO Article extracted successfully.")
          /\ InTrace("INFO Checking for monetary values in the article.")
          /\ xlsx = << Header,
                       << title, date, description, image_filename,
                          count_search_phrases, contains_money >> >>

C2_Witness ==
    /\ pc = "returned"
    /\ SearchDone
    /\ ~FirstResultExists
    /\ ~Missing("title")
    /\ caught = "browser.find_element"
    /\ ~Saved

----------------------------------------------------------------------------
(* C3 *)

TextLookupFails ==
    /\ SearchDone
    /\ FirstResultExists
    /\ \E f \in TextFields : Missing(f)

\* C3: when the first result exists and the title, description or timestamp
\* lookup fails, extraction still succeeds: the article is built, the
\* missing field is the empty string, the fields that are on the page are
\* extracted, and the row is saved (unless the save itself fails).
C3_MissingFieldIsEmpty ==
    (pc = "returned" /\ TextLookupFails) =>
        /\ article # <<>>
        /\ article[1].Title = (IF Missing("title") THEN <<>> ELSE TitleText)
        /\ article[1].Description = (IF Missing("description") THEN <<>> ELSE DescText)
        /\ article[1].Date = (IF Missing("date") THEN <<>> ELSE DateText)
        /\ caught \in {"none"} \cup ExcelCallSet
        /\ caught = "none" => xlsx = <<Header, Row(article[1])>>

----------------------------------------------------------------------------
(* C4 *)

TextsReadable == SearchDone /\ FirstResultExists /\ \A f \in TextFields : ~Missing(f)

\* (a) no img.image element on the page, or the element has no src;
\* (b) the src is parsed and its query has no `url` parameter;
\* (c) go_to or screenshot raised on the resolved url
ImageUnavailable ==
    \/ ~ImgOnPage
    \/ ~get_element_attribute(page).v.some
    \/ /\ ~urlparse_raises(get_element_attribute(page).v.v)
       /\ ~has_url_param(urlparse_query(get_element_attribute(page).v.v))
    \/ InTrace("browser.go_to") /\ InTrace("ERROR Error downloading image")

ArticleWithoutImage ==
    /\ article # <<>>
    /\ article[1].Title = TitleText
    /\ article[1].Description = DescText
    /\ article[1].Date = DateText
    /\ article[1].ImageFilename = None
    /\ caught \in {"none"} \cup ExcelCallSet
    /\ caught = "none" => xlsx = <<Header, Row(article[1])>>

\* C4: when the first result exists and its texts are readable, then with
\* the image element or its src absent, or no `url` parameter in the src, or
\* a navigation or capture that raises, the article is still built with its
\* texts and no image filename, and the row is saved (unless the save itself
\* fails).
C4_ImageNeverFatal ==
    (pc = "returned" /\ TextsReadable /\ ImageUnavailable) => ArticleWithoutImage

----------------------------------------------------------------------------
(* C5 *)

\* C5: after the failure of any pipeline step (site open, search,
\* extraction, persistence), run() catches the failure and returns normally:
\* when run() has ended after a step failed, it has returned to its caller
\* and no exception is in flight.
C5_RunSwallowsFailures ==
    (Exited /\ \E e \in StepErrors : InTrace(e)) => (pc = "returned" /\ exc = "none")

----------------------------------------------------------------------------
(* C6 *)

AfterFailure ==
    StepErrors \cup {"ERROR An error occurred during the scraping process",
                     "browser.close_browser", "INFO Browser closed."}

\* the log line that must have been written before each of these is written
StepBefore ==
    [e \in {"INFO Site opened successfully.", "INFO Searching for news",
            "INFO Extracting the newest news article.",
            "INFO Article extracted successfully.",
            "INFO Saving article data to Excel file.", "INFO Data saved successfully"} |->
        CASE e = "INFO Site opened successfully." -> "INFO Opening site"
          [] e = "INFO Searching for news" -> "INFO Site opened successfully."
          [] e = "INFO Extracting the newest news article." ->
                "INFO Search completed successfully."
          [] e = "INFO Article extracted successfully." ->
                "INFO Extracting the newest news article."
          [] e = "INFO Saving article data to Excel file." ->
                "INFO Article extracted successfully."
          [] OTHER -> "INFO Saving article data to Excel file."]

\* the entries of the trace that the order of the steps constrains
Ordered == (DOMAIN StepBefore) \cup StepStarts \cup StepErrors \cup {"browser.close_browser"}

\* C6: a step starts only after the step before it has completed (search
\* after the site opened, extraction after the search completed, the save
\* after the article was extracted), nothing but the closing log line follows
\* close_browser, and once a step has failed only error logging and the
\* closing of the browser follow.
C6_StrictOrder ==
    \A j \in 1..Len(trace) :
        trace[j] \in Ordered =>
            /\ trace[j] \in DOMAIN StepBefore =>
                  \E i \in 1..(j - 1) : trace[i] = StepBefore[trace[j]]
            /\ trace[j] \in StepStarts => \A i \in 1..(j - 1) : trace[i] # trace[j]
            /\ trace[j] = "browser.close_browser" =>
                  \A k \in (j + 1)..Len(trace) : trace[k] = "INFO Browser closed."
            /\ trace[j] \in StepErrors =>
                  \A k \in (j + 1)..Len(trace) : trace[k] \in AfterFailure

C6_Witness ==
    /\ pc = "returned"
    /\ InTrace("browser.input_text")
    /\ InTrace("ERROR Error during search")
    /\ ~InTrace("INFO Extracting the newest news article.")
    /\ Last(trace) = "INFO Browser closed."

----------------------------------------------------------------------------
(* C7 *)

\* C7: the title, description, date and image reference of the article are
\* those of the first entry of the results list.
C7_FieldsOfFirstResult ==
    article # <<>> =>
        LET first == page.results[1]
        IN  /\ first.title = Str(article[1].Title)
            /\ first.description = Str(article[1].Description)
            /\ first.date = Str(article[1].Date)
            /\ first.img.elem
            /\ first.img.src = image_url

----------------------------------------------------------------------------
(* C8 *)

caseEq(c, d) ==
    c = d \/ \E i \in 1..Len(UpperAlpha) : {c, d} = {UpperAlpha[i], LowerAlpha[i]}

OccursAt(s, sub, i) ==
    /\ i + Len(sub) - 1 <= Len(s)
    /\ \A k \in 1..Len(sub) : caseEq(s[i + k - 1], sub[k])

\* the number of occurrences of sub in s, ignoring case: the most places of
\* s, no two overlapping, where sub occurs
Occurrences(s, sub) ==
    LET P == {i \in 1..Len(s) : OccursAt(s, sub, i)}
        Apart(Q) == \A i, j \in Q : i < j => j - i >= Len(sub)
        Sizes == {Cardinality(Q) : Q \in {R \in SUBSET P : Apart(R)}}
    IN  CHOOSE n \in Sizes : \A m \in Sizes : m <= n

\* C8: the count is the number of case-insensitive occurrences of the phrase
\* in the title plus that in the description, each text counted on its own,
\* and swapping title and description leaves it unchanged.
C8_CountIsSumOfOccurrences ==
    pc = "money" =>
        /\ count_search_phrases
             = Occurrences(title, search_phrase) + Occurrences(description, search_phrase)
        /\ count_search_phrases = CountPhrases(description, title, search_phrase)

C8_Witness ==
    /\ pc = "money"
    /\ count_search_phrases = 2
    /\ Occurrences(title, search_phrase) = 1
    /\ Occurrences(description, search_phrase) = 1
    /\ title # lower(title)
    /\ Len(search_phrase) = 2
    /\ Last(title) = "s"
    /\ description[1] = "s"

----------------------------------------------------------------------------
(* C9 *)

HasDollarAmount(t) == \E i \in 1..(Len(t) - 1) : t[i] = "$" /\ t[i + 1] \in Digits

HasIntegerThen(t, word) ==
    \E i \in 1..Len(t) :
        /\ t[i] \in Digits
        /\ i + Len(word) <= Len(t)
        /\ \A k \in 1..Len(word) : t[i + k] = word[k]

MoneyMention(t) ==
    \/ HasDollarAmount(t)
    \/ HasIntegerThen(t, <<" ", "d", "o", "l", "l", "a", "r", "s">>)
    \/ HasIntegerThen(t, <<" ", "U", "S", "D">>)

\* C9 as stated: check_for_money is true exactly when one of the three
\* monetary patterns occurs in the concatenation of title and description.
C9_MoneyInConcatenation ==
    pc = "article" => (contains_money = MoneyMention(title \o description))

\* C9 amended: check_for_money is true exactly when one of the three monetary
\* patterns occurs, literals matched case-sensitively, in the text made of
\* the title, one space and the description.
C9_MoneyInJoinedText ==
    pc = "article" => (contains_money = MoneyMention(title \o <<" ">> \o description))

C9_Witness ==
    /\ pc = "article"
    /\ contains_money
    /\ ~HasDollarAmount(title \o <<" ">> \o description)
    /\ HasIntegerThen(title, <<" ", "d", "o", "l", "l", "a", "r", "s">>)
    /\ Last(trace) = "INFO Monetary value found in the article."

----------------------------------------------------------------------------
(* C10 *)

\* C10: the resolved image URL is the value of the `url` query parameter
\* percent-decoded once, and the filename is its final path segment; with no
\* `url` parameter the filename is None and the browser is not navigated.
C10_DecodedOnce ==
    pc = "count" =>
        LET q == urlparse_query(image_url.v)
        IN  IF has_url_param(q)
            THEN /\ actual_image_url = Str(first_url_value(q))
                 /\ image_filename.some =>
                        image_filename.v = last_segment(first_url_value(q))
            ELSE /\ image_filename = None
                 /\ ~InTrace("browser.go_to")

====
